---- MODULE Spec2Model ----
(***************************************************************************)
(* Model of the MARP indexing and retrieval services.                      *)
(*                                                                         *)
(*   SpecChunker   chunk_text_semantic (services/indexing/app/pipeline.py) *)
(*                 run step by step on every bounded input text            *)
(*   SpecIndexing  handle_document and manual_index_document (pipeline.py) *)
(*                 as coroutines interleaved at their await points         *)
(*   SpecSearch    Retriever.search (services/retrieval/app/retriever.py)  *)
(*                 on every bounded query and candidate list               *)
(*   SpecEntry     the same search reached through GET /search, the dev    *)
(*                 endpoint or a direct call, with any mode and top_k      *)
(*   SpecEngine    RetrievalEngine.search (services/retrieval/app/         *)
(*                 engine.py) run by two engines over one collection       *)
(*   SpecHealth    Retriever.health and RetrievalEngine.health             *)
(*   SpecMarkers   chunk_text_semantic on texts that also hold malformed   *)
(*                 page markers                                            *)
(*   SpecChannel   _ensure_channel (services/monitoring/common/events.py)  *)
(*                 called by concurrent publishers and consumers           *)
(*   SpecExtraction the consumer of the extraction service                 *)
(*                 (services/extraction/main.py and app/main.py)           *)
(*                                                                         *)
(* A text is a sequence of symbols: "tok" is one tokenizer token of        *)
(* content, "sp" is the whitespace that follows sentence-final             *)
(* punctuation, "blank" is a blank line (paragraph break), "pg1"/"pg2" are *)
(* the page markers "--- page 1 ---"/"--- page 2 ---".  A content token is *)
(* identified by its position in the text, so that dropped, duplicated or  *)
(* reordered content is visible.  A chunk text is the sequence of its      *)
(* tokens as enc.encode returns them: the position of each content token   *)
(* and NL for the "\n\n" the chunker inserts between paragraphs (a single  *)
(* space inserted between sentences merges into the following token and    *)
(* adds none).                                                             *)
(*                                                                         *)
(* Scores are exact rationals held as integers over fixed denominators: a  *)
(* cosine distance d stands for d * (2 / DistUnits), a semantic score is   *)
(* counted in 1/DistUnits, a normalized BM25 score in 1/BmDen and a        *)
(* combined score in 1/CombinedDen.  Floating-point rounding is not        *)
(* modelled.                                                               *)
(***************************************************************************)
EXTENDS Integers, Sequences, FiniteSets, TLC

\* ---------------------------------------------------------------- bounds
MaxTextLen == 5        \* longest input text, in symbols
MaxTokensBound == 3    \* largest max_tokens tried
MaxChunks == MaxTextLen + 2   \* cap on emitted chunks (stops a non-terminating split loop)
MaxDeliveries == 2     \* DocumentExtracted deliveries (first deliveries and redeliveries)
MaxManual == 1         \* POST /index/{document_id} requests
MaxRewrites == 1       \* times a text file is rewritten by the extraction service
MaxContent == 2        \* distinct non-blank text contents; content c yields c chunks
MaxIndex == 3          \* chunks in the collection that a search ranks
MaxBm == 2             \* largest raw BM25 score
MaxTopK == 2           \* largest top_k tried
MaxEntryIndex == 1     \* chunks in the collection when the entry points are examined
MaxEngineIndex == 2    \* chunks in the collection the engines query
DistUnits == 2         \* sim = 1 - d / 2.0
MaxDist == DistUnits + 1      \* distances run from 0 to one unit past the clamp at 2.0
AlphaDen == 5          \* hybrid_alpha is counted in fifths: the default 0.6 is 3/5

Symbols == {"tok", "sp", "blank", "pg1", "pg2"}
\* "pgx": a line such as "--- page X ---", which the marker pattern does not match;
\* "pgbig": a marker whose digits int() rejects (more digits than int() converts)
MarkerSymbols == Symbols \cup {"pgx", "pgbig"}
MaxMarkerTextLen == 4  \* longest input text when malformed markers are among the symbols
NL == 0                \* the token of the "\n\n" paragraph separator
doc_id == "doc"

VARIABLES
    text,                   \* the input text
    max_tokens,             \* parameter
    overlap_tokens,         \* parameter
    pc,                     \* position in chunk_text_semantic
    pgi,                    \* index of the page being processed
    pai,                    \* index of the paragraph being processed
    si,                     \* index of the sentence being processed
    ti,                     \* i of the hard-split loop
    chunks,                 \* emitted chunks
    counter,                \* next chunk sequence number
    next_chunk_prefix_ids,  \* pending overlap
    current_chunk,          \* text of the open chunk (token sequence)
    current_tokens,         \* accounted tokens of the open chunk
    current_page,           \* page number of the page being processed (0 = None)
    carried,                \* history: leading tokens of current_chunk that are carried overlap
    file,                   \* content of each document's text file (0: blank, no chunk)
    rewrites,               \* times a text file was rewritten
    queue,                  \* DocumentExtracted messages waiting in the broker
    deliveries,             \* messages put in the queue so far
    h,                      \* the consumer's handle_document call
    tasks,                  \* the manual_index_document background tasks
    collection,             \* the ChromaDB collection "marp_docs"
    index_metadata,         \* lines of /data/index_metadata.jsonl
    events,                 \* ChunksIndexed events published
    embed_calls,            \* history: calls of generate_embeddings
    entry,                  \* search: the entry point the request came through
    q,                      \* search: the query text
    top_k,                  \* search: number of results asked for
    mode,                   \* search: "semantic", "bm25", "hybrid" or another string
    document_id,            \* search: the document filter, "" for None
    hybrid_alpha,           \* Retriever.hybrid_alpha, in 1/AlphaDen
    coll,                   \* the collection as ranked for q: chunks by ascending distance
    bm25_raises,            \* whether BM25Okapi raises on the candidates' snippets
    outcome,                \* search: "pending", "rows", "ValueError" or "rejected"
    rows,                   \* search: the rows returned
    http,                   \* the HTTP status of the response, 0 for a direct call
    queries,                \* history: the calls of _coll.query
    corpora,                \* history: the corpora tokenized for BM25Okapi
    embedder,               \* per RetrievalEngine: "unset" when EMBEDDING_ENDPOINT is empty,
                            \* else how the endpoint answers: "2xx", "4xx", "5xx", "timeout"
    index_ok,               \* whether the Chroma collection answers
    estore,                 \* the engines' collection: per chunk its cosine distance to the
                            \* dev fallback vector and to the embedder's vector of the query
    engine_top_k,           \* RetrievalEngine.search: top_k
    engine_mode,            \* RetrievalEngine.search: mode
    engine_outcome,         \* per engine: "pending", "hits", "ValueError" or "Exception"
    engine_hits,            \* per engine: the hits returned
    fallback_used,          \* history, per engine: embed_query returned the dev vector
    embed_check,            \* Retriever.health: what the test query does: "docs", "empty", "raises"
    bm25_selftest_raises,   \* Retriever.health: whether the BM25 self-test raises
    retriever_health,       \* the answer of Retriever.health, <<>> before the probe
    engine_health,          \* per engine: the answer of RetrievalEngine.health, <<>> before
    amqp,                   \* events.py: lock (_amqp_lock: 0 when free, else the caller
                            \* holding it), connection and channel (_amqp_connection and
                            \* _amqp_channel: 0 for None; a channel is named after the
                            \* connection it was opened on), open_connections and
                            \* open_channels (those not closed), connects (connections
                            \* opened so far), caller (per caller of _ensure_channel: its
                            \* position, its connection and the channel it was given)
    extraction              \* the extraction service: version ("main" for
                            \* extraction/main.py, "app" for extraction/app/main.py),
                            \* force_reextract (settings.force_reextract), out_file
                            \* (<doc_id>.jsonl: 0 when absent, else the times written),
                            \* pending and deliveries (messages in the queue, and put in
                            \* it so far), handlers (the calls in progress),
                            \* events_consumed, docs_extracted, errors (counters.json),
                            \* published (DocumentExtracted events), acks, nacks, and
                            \* extractions (history: calls of _extract_pdf_to_jsonl)

chunkerVars == <<text, max_tokens, overlap_tokens, pc, pgi, pai, si, ti, chunks, counter,
                 next_chunk_prefix_ids, current_chunk, current_tokens, current_page, carried>>

indexingVars == <<file, rewrites, queue, deliveries, h, tasks, collection, index_metadata,
                  events, embed_calls>>

searchVars == <<entry, q, top_k, mode, document_id, hybrid_alpha, coll, bm25_raises, outcome,
                rows, http, queries, corpora>>

engineVars == <<embedder, index_ok, estore, engine_top_k, engine_mode, engine_outcome,
                engine_hits, fallback_used>>

healthVars == <<embed_check, bm25_selftest_raises, retriever_health, engine_health>>

serviceVars == <<engineVars, healthVars, amqp, extraction>>

vars == <<chunkerVars, indexingVars, searchVars, serviceVars>>

\* ------------------------------------------------------- sequence helpers
RECURSIVE SplitAt(_, _, _)
\* re.split: the runs of positions of s between separators (empty runs kept)
SplitAt(t, s, sep) ==
    IF s = <<>> THEN << <<>> >>
    ELSE LET rest == SplitAt(t, Tail(s), sep) IN
         IF t[Head(s)] \in sep THEN << <<>> >> \o rest
         ELSE << <<Head(s)>> \o Head(rest) >> \o Tail(rest)

RECURSIVE SelectPos(_, _)
SelectPos(t, s) ==
    IF s = <<>> THEN <<>>
    ELSE (IF t[Head(s)] \in {"tok", "pgx"} THEN <<Head(s)>> ELSE <<>>)
         \o SelectPos(t, Tail(s))

RECURSIVE NonEmpty(_)
NonEmpty(ss) ==
    IF ss = <<>> THEN <<>>
    ELSE (IF Head(ss) = <<>> THEN <<>> ELSE <<Head(ss)>>) \o NonEmpty(Tail(ss))

RECURSIVE LeadingNL(_)
LeadingNL(s) == IF s # <<>> /\ Head(s) = NL THEN 1 + LeadingNL(Tail(s)) ELSE 0

\* str.strip() of a chunk text: leading "\n\n" tokens go (a chunk text never ends in one)
Strip(s) == SubSeq(s, LeadingNL(s) + 1, Len(s))

\* ids[-n:] with Python's slice rule: ids[-0:] is the whole list
PyTail(ids, n) ==
    IF n = 0 \/ n >= Len(ids) THEN ids ELSE SubSeq(ids, Len(ids) - n + 1, Len(ids))

Digit(n, k) == (n \div (10 ^ k)) % 10
\* f"{counter:04}": decimal digits, zero-padded to width 4
Pad4(n) ==
    IF n < 10000 THEN <<Digit(n, 3), Digit(n, 2), Digit(n, 1), Digit(n, 0)>>
    ELSE <<n>>

\* --------------------------------------------------------------- parsing
\* int(parts[i]); 0 stands for the except branch
MarkerNum(s) == IF s = "pg1" THEN 1 ELSE IF s = "pg2" THEN 2 ELSE 0

Positions(t) == [i \in 1..Len(t) |-> i]

\* re.split(r"--- page (\d+) ---", text): the page texts, parts[0], parts[2], ...
PageTexts(t) == SplitAt(t, Positions(t), {"pg1", "pg2", "pgbig"})

RECURSIVE Markers(_, _)
\* the captured marker numbers, parts[1], parts[3], ...
Markers(t, s) ==
    IF s = <<>> THEN <<>>
    ELSE (IF t[Head(s)] \in {"pg1", "pg2", "pgbig"} THEN <<MarkerNum(t[Head(s)])>> ELSE <<>>)
         \o Markers(t, Tail(s))

RECURSIVE PageNums(_, _)
\* page_num of each marker: its number, or the number of the page before it plus
\* one (1 when pages is empty) when int() raised
PageNums(prev, mk) ==
    IF mk = <<>> THEN <<>>
    ELSE LET n == IF Head(mk) = 0 THEN prev + 1 ELSE Head(mk)
         IN  <<n>> \o PageNums(n, Tail(mk))

\* pages: (page_number, page_text); text before the first marker is page 1 when not blank
Pages(t) ==
    LET pt == PageTexts(t)
        first == IF SelectPos(t, pt[1]) # <<>> THEN << [num |-> 1, content |-> pt[1]] >>
                 ELSE <<>>
        mk == PageNums(Len(first), Markers(t, Positions(t)))
    IN  first \o [j \in 1..Len(mk) |-> [num |-> mk[j], content |-> pt[j + 1]]]

\* re.split(r"\n\s*\n+", page_content)
Paragraphs(t, content) == SplitAt(t, content, {"blank"})

\* the tokens of para.strip(); <<>> when the paragraph is blank
ParaTokens(t, para) == SelectPos(t, para)

\* re.split(r'(?<=[.!?])\s+', para) of a stripped paragraph: no empty sentence
Sentences(t, para) == NonEmpty(SplitAt(t, para, {"sp"}))

\* ---------------------------------------------------- closures of the chunker
State == [chunks |-> chunks, counter |-> counter, prefix |-> next_chunk_prefix_ids,
          cur |-> current_chunk, ctok |-> current_tokens, carried |-> carried]

start_chunk_with_overlap_if_needed(st) ==
    IF st.ctok = 0 /\ st.prefix # <<>>
    THEN [st EXCEPT !.cur = st.prefix, !.ctok = Len(st.prefix), !.prefix = <<>>,
                    !.carried = Len(st.prefix)]
    ELSE st

\* flush_chunk without the reset of current_chunk
flush_chunk_keeps_buffer(st, page, overlap) ==
    LET text_out == Strip(st.cur) IN
    IF text_out = <<>> THEN st
    ELSE [st EXCEPT
            !.chunks = Append(st.chunks,
                         [chunkId |-> <<doc_id, Pad4(st.counter)>>,
                          text |-> text_out,
                          document_id |-> doc_id,
                          page |-> IF page # 0 THEN page ELSE 1,
                          carried |-> st.carried - LeadingNL(st.cur)]),
            !.counter = st.counter + 1,
            !.prefix = PyTail(text_out, overlap),
            !.ctok = 0,
            !.carried = 0]

\* flush_chunk with counter += 1 ahead of the empty-buffer return
flush_chunk_counts_empty(st, page, overlap) ==
    LET text_out == Strip(st.cur) IN
    IF text_out = <<>> THEN [st EXCEPT !.counter = st.counter + 1]
    ELSE [st EXCEPT
            !.chunks = Append(st.chunks,
                         [chunkId |-> <<doc_id, Pad4(st.counter)>>,
                          text |-> text_out,
                          document_id |-> doc_id,
                          page |-> IF page # 0 THEN page ELSE 1,
                          carried |-> st.carried - LeadingNL(st.cur)]),
            !.counter = st.counter + 1,
            !.prefix = PyTail(text_out, overlap),
            !.cur = <<>>,
            !.ctok = 0,
            !.carried = 0]

\* flush_chunk without the return on an empty buffer
flush_chunk_emits_empty(st, page, overlap) ==
    LET text_out == Strip(st.cur) IN
    [st EXCEPT
        !.chunks = Append(st.chunks,
                     [chunkId |-> <<doc_id, Pad4(st.counter)>>,
                      text |-> text_out,
                      document_id |-> doc_id,
                      page |-> IF page # 0 THEN page ELSE 1,
                      carried |-> st.carried - LeadingNL(st.cur)]),
        !.counter = st.counter + 1,
        !.prefix = PyTail(text_out, overlap),
        !.cur = <<>>,
        !.ctok = 0,
        !.carried = 0]

flush_chunk(st, page, overlap) ==
    LET text_out == Strip(st.cur) IN
    IF text_out = <<>> THEN st
    ELSE [st EXCEPT
            !.chunks = Append(st.chunks,
                         [chunkId |-> <<doc_id, Pad4(st.counter)>>,
                          text |-> text_out,
                          document_id |-> doc_id,
                          page |-> IF page # 0 THEN page ELSE 1,
                          carried |-> st.carried - LeadingNL(st.cur)]),
            !.counter = st.counter + 1,
            !.prefix = PyTail(text_out, overlap),
            !.cur = <<>>,
            !.ctok = 0,
            !.carried = 0]

\* ------------------------------------------------------------------ chunker
pages == Pages(text)
paragraphs == Paragraphs(text, pages[pgi].content)
para == ParaTokens(text, paragraphs[pai])
sentences == Sentences(text, paragraphs[pai])
sent == sentences[si]

Store(st) ==
    /\ chunks' = st.chunks
    /\ counter' = st.counter
    /\ next_chunk_prefix_ids' = st.prefix
    /\ current_chunk' = st.cur
    /\ current_tokens' = st.ctok
    /\ carried' = st.carried

params == <<text, max_tokens, overlap_tokens>>
buffers == <<chunks, counter, next_chunk_prefix_ids, current_chunk, current_tokens, carried>>

\* ------------------------------------------------ indexing service: state
Docs == {"d1"}

NoCall == [pc |-> "idle", doc |-> "d1", text |-> 0]

IndexingStart ==
    /\ rewrites = 0
    /\ queue = <<>>
    /\ deliveries = 0
    /\ h = NoCall
    /\ tasks = [t \in 1..MaxManual |-> NoCall]
    /\ collection = {}
    /\ index_metadata = <<>>
    /\ events = <<>>
    /\ embed_calls = 0

\* the retriever at rest
Engines == {1, 2}

MaxCallers == 3        \* concurrent callers of _ensure_channel
MaxConnects == 2       \* connections that can be opened
MaxXDeliveries == 2    \* deliveries of the extraction service's input message
Callers == 1..MaxCallers
XHandlers == {1, 2}

\* no caller in _ensure_channel, nothing connected
ChannelStart ==
    amqp = [lock |-> 0, connection |-> 0, channel |-> 0,
            open_connections |-> {}, open_channels |-> {}, connects |-> 0,
            caller |-> [c \in Callers |-> [pc |-> "idle", conn |-> 0, got |-> 0]]]

NoExtraction == [pc |-> "idle", existed |-> FALSE, fresh |-> FALSE]

\* the extraction service before its first message
ExtractionStart(version, force, written) ==
    [version |-> version, force_reextract |-> force, out_file |-> written,
     pending |-> 0, deliveries |-> 0,
     handlers |-> [i \in XHandlers |-> NoExtraction],
     events_consumed |-> 0, docs_extracted |-> 0, errors |-> 0,
     published |-> 0, acks |-> 0, nacks |-> 0, extractions |-> 0]

ChannelIdle == ChannelStart

ExtractionIdle == extraction = ExtractionStart("app", FALSE, 0)

\* the engines and the health probes at rest
ServiceIdle ==
    /\ ChannelIdle
    /\ ExtractionIdle
    /\ embedder = [i \in Engines |-> "unset"] /\ index_ok = TRUE /\ estore = <<>>
    /\ engine_top_k = 1 /\ engine_mode = "semantic"
    /\ engine_outcome = [i \in Engines |-> "pending"]
    /\ engine_hits = [i \in Engines |-> <<>>]
    /\ fallback_used = [i \in Engines |-> FALSE]
    /\ embed_check = "docs" /\ bm25_selftest_raises = FALSE
    /\ retriever_health = <<>>
    /\ engine_health = [i \in Engines |-> <<>>]

SearchIdle ==
    /\ entry = "direct" /\ q = "" /\ top_k = 1 /\ mode = "semantic" /\ document_id = ""
    /\ hybrid_alpha = 3 /\ coll = <<>> /\ bm25_raises = FALSE
    /\ outcome = "pending" /\ rows = <<>> /\ http = 0 /\ queries = <<>> /\ corpora = <<>>

\* the indexing service at rest (the state it has while the chunker is examined alone)
IndexingIdle ==
    /\ file = [d \in Docs |-> 1]
    /\ IndexingStart

ChunkerInit ==
    /\ text \in UNION {[1..n -> Symbols] : n \in 0..MaxTextLen}
    /\ max_tokens \in 1..MaxTokensBound
    /\ overlap_tokens \in 0..(max_tokens - 1)
    /\ pc = "pages"
    /\ pgi = 1 /\ pai = 1 /\ si = 1 /\ ti = 0
    /\ chunks = <<>>
    /\ counter = 1
    /\ next_chunk_prefix_ids = <<>>
    /\ current_chunk = <<>>
    /\ current_tokens = 0
    /\ current_page = 0
    /\ carried = 0
    /\ IndexingIdle
    /\ SearchIdle
    /\ ServiceIdle

\* for page_num, page_content in pages: current_page = page_num
PageStart ==
    /\ pc = "pages" /\ pgi <= Len(pages)
    /\ current_page' = pages[pgi].num
    /\ pai' = 1
    /\ pc' = "paragraphs"
    /\ UNCHANGED <<indexingVars, searchVars, serviceVars, params, buffers, pgi, si, ti>>

\* if not para: continue
ParaSkip ==
    /\ pc = "paragraphs" /\ pai <= Len(paragraphs)
    /\ para = <<>>
    /\ pai' = pai + 1
    /\ UNCHANGED <<indexingVars, searchVars, serviceVars, params, buffers, pc, pgi, si, ti, current_page>>

\* the paragraph fits inside the current chunk
ParaAppend ==
    /\ pc = "paragraphs" /\ pai <= Len(paragraphs)
    /\ para # <<>>
    /\ current_tokens + Len(para) <= max_tokens
    /\ LET st == start_chunk_with_overlap_if_needed(State) IN
       Store([st EXCEPT !.cur = st.cur \o (IF st.cur # <<>> THEN <<NL>> ELSE <<>>) \o para,
                        !.ctok = st.ctok + Len(para)])
    /\ pai' = pai + 1
    /\ UNCHANGED <<indexingVars, searchVars, serviceVars, params, pc, pgi, si, ti, current_page>>

\* the paragraph does not fit: split it by sentences
ParaSplit ==
    /\ pc = "paragraphs" /\ pai <= Len(paragraphs)
    /\ para # <<>>
    /\ current_tokens + Len(para) > max_tokens
    /\ si' = 1
    /\ pc' = "sentences"
    /\ UNCHANGED <<indexingVars, searchVars, serviceVars, params, buffers, pgi, pai, ti, current_page>>

\* the sentence fits
SentAppend ==
    /\ pc = "sentences" /\ si <= Len(sentences)
    /\ current_tokens + Len(sent) <= max_tokens
    /\ LET st == start_chunk_with_overlap_if_needed(State) IN
       Store([st EXCEPT !.cur = st.cur \o sent, !.ctok = st.ctok + Len(sent)])
    /\ si' = si + 1
    /\ UNCHANGED <<indexingVars, searchVars, serviceVars, params, pc, pgi, pai, ti, current_page>>

\* the sentence does not fit and is appended to the open chunk all the same
SentNewChunkAppends ==
    /\ pc = "sentences" /\ si <= Len(sentences)
    /\ current_tokens + Len(sent) > max_tokens
    /\ Len(sent) <= max_tokens
    /\ LET st == start_chunk_with_overlap_if_needed(State) IN
       Store([st EXCEPT !.cur = st.cur \o sent, !.ctok = st.ctok + Len(sent)])
    /\ si' = si + 1
    /\ UNCHANGED <<indexingVars, searchVars, serviceVars, params, pc, pgi, pai, ti, current_page>>

\* the sentence does not fit but is itself within the budget: start a new chunk
SentNewChunk ==
    /\ pc = "sentences" /\ si <= Len(sentences)
    /\ current_tokens + Len(sent) > max_tokens
    /\ Len(sent) <= max_tokens
    /\ LET st == start_chunk_with_overlap_if_needed(
                     flush_chunk(State, current_page, overlap_tokens)) IN
       Store([st EXCEPT !.cur = sent, !.ctok = Len(sent), !.carried = 0])
    /\ si' = si + 1
    /\ UNCHANGED <<indexingVars, searchVars, serviceVars, params, pc, pgi, pai, ti, current_page>>

\* the sentence is longer than max_tokens: sent_ids = enc.encode(sent); i = 0
SentHardSplit ==
    /\ pc = "sentences" /\ si <= Len(sentences)
    /\ current_tokens + Len(sent) > max_tokens
    /\ Len(sent) > max_tokens
    /\ ti' = 0
    /\ pc' = "split"
    /\ UNCHANGED <<indexingVars, searchVars, serviceVars, params, buffers, pgi, pai, si, current_page>>

\* while i < len(sent_ids): no room left: flush and continue
SplitFlush ==
    /\ pc = "split" /\ ti < Len(sent)
    /\ counter <= MaxChunks
    /\ LET st == start_chunk_with_overlap_if_needed(State) IN
       /\ max_tokens - st.ctok <= 0
       /\ Store(flush_chunk(st, current_page, overlap_tokens))
    /\ UNCHANGED <<indexingVars, searchVars, serviceVars, params, pc, pgi, pai, si, ti, current_page>>

\* while i < len(sent_ids): take as many tokens as fit, flush when full
SplitTake ==
    /\ pc = "split" /\ ti < Len(sent)
    /\ counter <= MaxChunks
    /\ LET st == start_chunk_with_overlap_if_needed(State)
           room == max_tokens - st.ctok
           take == IF room <= Len(sent) - ti THEN room ELSE Len(sent) - ti
           st2 == [st EXCEPT !.cur = st.cur \o SubSeq(sent, ti + 1, ti + take),
                             !.ctok = st.ctok + take]
       IN  /\ room > 0
           /\ Store(IF st2.ctok >= max_tokens
                    THEN flush_chunk(st2, current_page, overlap_tokens) ELSE st2)
           /\ ti' = ti + take
    /\ UNCHANGED <<indexingVars, searchVars, serviceVars, params, pc, pgi, pai, si, current_page>>

\* the while loop ends: next sentence
SplitDone ==
    /\ pc = "split" /\ ti >= Len(sent)
    /\ si' = si + 1
    /\ pc' = "sentences"
    /\ UNCHANGED <<indexingVars, searchVars, serviceVars, params, buffers, pgi, pai, ti, current_page>>

\* the sentence loop ends: next paragraph
SentencesDone ==
    /\ pc = "sentences" /\ si > Len(sentences)
    /\ pai' = pai + 1
    /\ pc' = "paragraphs"
    /\ UNCHANGED <<indexingVars, searchVars, serviceVars, params, buffers, pgi, si, ti, current_page>>

\* the end of the page without the flush
PageEndNoFlush ==
    /\ pc = "paragraphs" /\ pai > Len(paragraphs)
    /\ pgi' = pgi + 1
    /\ pc' = "pages"
    /\ UNCHANGED <<indexingVars, searchVars, serviceVars, params, buffers, pai, si, ti, current_page>>

\* the paragraph loop ends: flush at the end of the page
PageEnd ==
    /\ pc = "paragraphs" /\ pai > Len(paragraphs)
    /\ Store(flush_chunk(State, current_page, overlap_tokens))
    /\ pgi' = pgi + 1
    /\ pc' = "pages"
    /\ UNCHANGED <<indexingVars, searchVars, serviceVars, params, pai, si, ti, current_page>>

\* the summary: chunks[0] is printed, then the chunks are returned
SummaryReturn ==
    /\ pc = "pages" /\ pgi > Len(pages)
    /\ chunks # <<>>
    /\ pc' = "returned"
    /\ UNCHANGED <<indexingVars, searchVars, serviceVars, params, buffers, pgi, pai, si, ti, current_page>>

\* the summary: chunks[0] of an empty list raises IndexError
SummaryRaise ==
    /\ pc = "pages" /\ pgi > Len(pages)
    /\ chunks = <<>>
    /\ pc' = "raised"
    /\ UNCHANGED <<indexingVars, searchVars, serviceVars, params, buffers, pgi, pai, si, ti, current_page>>

ChunkerNext ==
    \/ PageStart \/ ParaSkip \/ ParaAppend \/ ParaSplit
    \/ SentAppend \/ SentNewChunk \/ SentHardSplit
    \/ SplitFlush \/ SplitTake \/ SplitDone
    \/ SentencesDone \/ PageEnd \/ SummaryReturn \/ SummaryRaise

SpecChunker == ChunkerInit /\ [][ChunkerNext]_vars

\* the chunker on texts that also hold malformed page markers
MarkerInit ==
    /\ text \in UNION {[1..n -> MarkerSymbols] : n \in 0..MaxMarkerTextLen}
    /\ max_tokens \in 1..MaxTokensBound
    /\ overlap_tokens \in 0..(max_tokens - 1)
    /\ pc = "pages"
    /\ pgi = 1 /\ pai = 1 /\ si = 1 /\ ti = 0
    /\ chunks = <<>>
    /\ counter = 1
    /\ next_chunk_prefix_ids = <<>>
    /\ current_chunk = <<>>
    /\ current_tokens = 0
    /\ current_page = 0
    /\ carried = 0
    /\ IndexingIdle
    /\ SearchIdle
    /\ ServiceIdle

SpecMarkers == MarkerInit /\ [][ChunkerNext]_vars

\* ------------------------------------------------------- indexing service
\* the chunker at rest (the state it has while the indexing service is examined)
ChunkerIdle ==
    /\ text = <<>> /\ max_tokens = 1 /\ overlap_tokens = 0
    /\ pc = "returned"
    /\ pgi = 1 /\ pai = 1 /\ si = 1 /\ ti = 0
    /\ chunks = <<>> /\ counter = 1
    /\ next_chunk_prefix_ids = <<>> /\ current_chunk = <<>> /\ current_tokens = 0
    /\ current_page = 0 /\ carried = 0

\* chunk_text_semantic + generate_embeddings on a text of content c: chunks
\* document_id-0001 .. document_id-000c, each holding that content
EmbeddedChunks(d, c) == {[document_id |-> d, seq |-> i, text |-> c] : i \in 1..c}

\* collection.add: a record whose id is already in the collection is ignored
CollectionAdd(stored, new) ==
    stored \cup {x \in new :
                 ~ \E y \in stored : y.document_id = x.document_id /\ y.seq = x.seq}

\* collection.delete(where={"document_id": d})
CollectionDelete(stored, d) == {x \in stored : x.document_id # d}

\* collection.get(where={"document_id": d})
CollectionGet(stored, d) == {x \in stored : x.document_id = d}

\* store_embeddings, then log_index_metadata
StoreAndLog(d, c) ==
    /\ embed_calls' = embed_calls + 1
    /\ collection' = CollectionAdd(collection, EmbeddedChunks(d, c))
    /\ index_metadata' = Append(index_metadata, [document_id |-> d, chunk_count |-> c])

IndexingInit ==
    /\ ChunkerIdle
    /\ SearchIdle
    /\ ServiceIdle
    /\ file \in [Docs -> 0..MaxContent]
    /\ IndexingStart

\* the broker receives a DocumentExtracted message (a first delivery or a redelivery)
Deliver(d) ==
    /\ deliveries < MaxDeliveries
    /\ queue' = Append(queue, d)
    /\ deliveries' = deliveries + 1
    /\ UNCHANGED <<chunkerVars, searchVars, serviceVars, file, rewrites, h, tasks, collection, index_metadata,
                   events, embed_calls>>

\* the extraction service rewrites a document's text file
RewriteText(d, c) ==
    /\ rewrites < MaxRewrites
    /\ c # file[d]
    /\ file' = [file EXCEPT ![d] = c]
    /\ rewrites' = rewrites + 1
    /\ UNCHANGED <<chunkerVars, searchVars, serviceVars, queue, deliveries, h, tasks, collection, index_metadata,
                   events, embed_calls>>

\* consume hands the next message to handle_document, which runs to its first await
HandlerReceive ==
    /\ h.pc = "idle" /\ queue # <<>>
    /\ h' = [pc |-> "read", doc |-> Head(queue), text |-> 0]
    /\ queue' = Tail(queue)
    /\ UNCHANGED <<chunkerVars, searchVars, serviceVars, file, rewrites, deliveries, tasks, collection,
                   index_metadata, events, embed_calls>>

\* read_text_file: the file is read
HandlerRead ==
    /\ h.pc = "read"
    /\ h' = [h EXCEPT !.pc = "loaded", !.text = file[h.doc]]
    /\ UNCHANGED <<chunkerVars, searchVars, serviceVars, file, rewrites, queue, deliveries, tasks, collection,
                   index_metadata, events, embed_calls>>

\* handle_document that acknowledges a message whose text could not be read
HandlerIndexAcksOnError ==
    /\ h.pc = "loaded"
    /\ IF h.text = 0
       THEN /\ h' = [h EXCEPT !.pc = "ack"]
            /\ UNCHANGED <<collection, index_metadata, embed_calls>>
       ELSE \/ /\ StoreAndLog(h.doc, h.text)
               /\ h' = [h EXCEPT !.pc = "publish"]
            \/ /\ embed_calls' = embed_calls + 1
               /\ collection' = CollectionAdd(collection, EmbeddedChunks(h.doc, h.text))
               /\ h' = [h EXCEPT !.pc = "nack"]
               /\ UNCHANGED index_metadata
    /\ UNCHANGED <<chunkerVars, searchVars, serviceVars, file, rewrites, queue, deliveries, tasks, events>>

\* handle_document resumes: chunk, embed, store, log, up to the await of the publish;
\* a blank text raises and the except branch is taken; so it is when the metadata
\* file cannot be written after the chunks were stored
HandlerIndex ==
    /\ h.pc = "loaded"
    /\ IF h.text = 0
       THEN /\ h' = [h EXCEPT !.pc = "nack"]
            /\ UNCHANGED <<collection, index_metadata, embed_calls>>
       ELSE \/ /\ StoreAndLog(h.doc, h.text)
               /\ h' = [h EXCEPT !.pc = "publish"]
            \/ /\ embed_calls' = embed_calls + 1
               /\ collection' = CollectionAdd(collection, EmbeddedChunks(h.doc, h.text))
               /\ h' = [h EXCEPT !.pc = "nack"]
               /\ UNCHANGED index_metadata
    /\ UNCHANGED <<chunkerVars, searchVars, serviceVars, file, rewrites, queue, deliveries, tasks, events>>

\* publish_chunks_indexed: the event is published, or the publish fails and is only logged
HandlerPublish ==
    /\ h.pc = "publish"
    /\ \E ok \in BOOLEAN :
         events' = IF ok THEN Append(events, [documentId |-> h.doc, chunkCount |-> h.text])
                   ELSE events
    /\ h' = [h EXCEPT !.pc = "ack"]
    /\ UNCHANGED <<chunkerVars, searchVars, serviceVars, file, rewrites, queue, deliveries, tasks, collection,
                   index_metadata, embed_calls>>

\* await msg.ack()
HandlerAck ==
    /\ h.pc = "ack"
    /\ h' = NoCall
    /\ UNCHANGED <<chunkerVars, searchVars, serviceVars, file, rewrites, queue, deliveries, tasks, collection,
                   index_metadata, events, embed_calls>>

\* await msg.nack(requeue=True): the broker delivers the message again
HandlerNack ==
    /\ h.pc = "nack"
    /\ h' = NoCall
    /\ IF deliveries < MaxDeliveries
       THEN queue' = Append(queue, h.doc) /\ deliveries' = deliveries + 1
       ELSE UNCHANGED <<queue, deliveries>>
    /\ UNCHANGED <<chunkerVars, searchVars, serviceVars, file, rewrites, tasks, collection, index_metadata, events,
                   embed_calls>>

\* POST /index/{d}: the background task starts, deletes the old embeddings and
\* runs to the await in read_text_file
ManualStart(t, d) ==
    /\ tasks[t].pc = "idle"
    /\ collection' = CollectionDelete(collection, d)
    /\ tasks' = [tasks EXCEPT ![t] = [pc |-> "read", doc |-> d, text |-> 0]]
    /\ UNCHANGED <<chunkerVars, searchVars, serviceVars, file, rewrites, queue, deliveries, h, index_metadata,
                   events, embed_calls>>

\* read_text_file: the file is read
ManualRead(t) ==
    /\ tasks[t].pc = "read"
    /\ tasks' = [tasks EXCEPT ![t].pc = "loaded", ![t].text = file[tasks[t].doc]]
    /\ UNCHANGED <<chunkerVars, searchVars, serviceVars, file, rewrites, queue, deliveries, h, collection,
                   index_metadata, events, embed_calls>>

\* manual_index_document resumes: chunk, embed, store, log, up to the await of the
\* publish; a blank text raises and the task fails
ManualIndex(t) ==
    /\ tasks[t].pc = "loaded"
    /\ IF tasks[t].text = 0
       THEN /\ tasks' = [tasks EXCEPT ![t].pc = "failed"]
            /\ UNCHANGED <<collection, index_metadata, embed_calls>>
       ELSE /\ StoreAndLog(tasks[t].doc, tasks[t].text)
            /\ tasks' = [tasks EXCEPT ![t].pc = "publish"]
    /\ UNCHANGED <<chunkerVars, searchVars, serviceVars, file, rewrites, queue, deliveries, h, events>>

\* publish_chunks_indexed, then "Re-index completed"
ManualPublish(t) ==
    /\ tasks[t].pc = "publish"
    /\ \E ok \in BOOLEAN :
         events' = IF ok THEN Append(events, [documentId |-> tasks[t].doc,
                                              chunkCount |-> tasks[t].text])
                   ELSE events
    /\ tasks' = [tasks EXCEPT ![t].pc = "done"]
    /\ UNCHANGED <<chunkerVars, searchVars, serviceVars, file, rewrites, queue, deliveries, h, collection,
                   index_metadata, embed_calls>>

IndexingNext ==
    \/ \E d \in Docs : Deliver(d)
    \/ \E d \in Docs : \E c \in 0..MaxContent : RewriteText(d, c)
    \/ HandlerReceive \/ HandlerRead \/ HandlerIndex \/ HandlerPublish
    \/ HandlerAck \/ HandlerNack
    \/ \E t \in 1..MaxManual : \E d \in Docs : ManualStart(t, d)
    \/ \E t \in 1..MaxManual : ManualRead(t)
    \/ \E t \in 1..MaxManual : ManualIndex(t)
    \/ \E t \in 1..MaxManual : ManualPublish(t)

SpecIndexing == IndexingInit /\ [][IndexingNext]_vars

\* --------------------------------------------------------------- retrieval
RECURSIVE Fact(_)
Fact(n) == IF n <= 1 THEN 1 ELSE n * Fact(n - 1)

BmDen == Fact(MaxBm)          \* every range max - min of the raw scores divides it
CombinedDen == AlphaDen * DistUnits * BmDen
Null == -1                    \* None
CandidateFactor == 5          \* candidate_k = max(top_k * 5, top_k)

Max(a, b) == IF a >= b THEN a ELSE b
Clamp(x, lo, hi) == Max(lo, IF x <= hi THEN x ELSE hi)
Reverse(s) == [i \in 1..Len(s) |-> s[Len(s) + 1 - i]]
\* s[:n]; a negative n counts from the end
PyHead(s, n) ==
    IF n >= 0 THEN SubSeq(s, 1, IF n <= Len(s) THEN n ELSE Len(s))
    ELSE SubSeq(s, 1, Max(Len(s) + n, 0))

\* key=lambda r: r["scores"]["combined"] or 0.0
SortKey(r) == IF r.combined = Null THEN 0 ELSE r.combined

RECURSIVE InsertAfterEqual(_, _)
\* x put behind every element whose key is not larger
InsertAfterEqual(sorted, x) ==
    IF sorted = <<>> THEN <<x>>
    ELSE IF SortKey(Head(sorted)) <= SortKey(x)
         THEN <<Head(sorted)>> \o InsertAfterEqual(Tail(sorted), x)
         ELSE <<x>> \o sorted

RECURSIVE SortAscending(_)
\* the stable ascending sort of list.sort
SortAscending(s) ==
    IF s = <<>> THEN <<>>
    ELSE InsertAfterEqual(SortAscending(SubSeq(s, 1, Len(s) - 1)), s[Len(s)])

\* a descending sort that reverses the ascending result: equal keys end reversed
SortDescendingUnstable(s) == Reverse(SortAscending(s))

\* rows.sort(key=..., reverse=True): the list is reversed, sorted ascending and
\* reversed again, so rows with equal keys keep their order
SortDescending(s) == Reverse(SortAscending(Reverse(s)))

\* self._coll.query(query_texts=[q], n_results=n, ...): the n nearest chunks
CollQuery(n) == PyHead(coll, n)

\* a candidate set no larger than the page asked for
candidate_k_unfactored == top_k

candidate_k == IF mode = "hybrid" THEN Max(top_k * CandidateFactor, top_k) ELSE top_k
docs == CollQuery(Max(1, candidate_k))

\* the similarity without its clamp
SimilarityUnclamped(d) == DistUnits - d

\* sim = max(0.0, min(1.0, 1.0 - d / 2.0)), in 1/DistUnits
Similarity(d) == Clamp(DistUnits - d, 0, DistUnits)

\* semantic scores brought to the denominator of the combined score
SemanticAsCombined(sim) == sim * AlphaDen * BmDen

\* semantic rows that carry a BM25 score of 0.0 instead of None
SemanticRowsScored ==
    [i \in 1..Len(docs) |->
        [chunk_id |-> i, semantic |-> Similarity(docs[i].dist), bm25 |-> 0,
         combined |-> SemanticAsCombined(Similarity(docs[i].dist))]]

SemanticRows ==
    [i \in 1..Len(docs) |->
        [chunk_id |-> i, semantic |-> Similarity(docs[i].dist), bm25 |-> Null,
         combined |-> SemanticAsCombined(Similarity(docs[i].dist))]]

RECURSIVE MinBm(_)
MinBm(ds) == IF Len(ds) = 1 THEN ds[1].bm
             ELSE IF ds[1].bm <= MinBm(Tail(ds)) THEN ds[1].bm ELSE MinBm(Tail(ds))
RECURSIVE MaxBmOf(_)
MaxBmOf(ds) == IF Len(ds) = 1 THEN ds[1].bm
               ELSE IF ds[1].bm >= MaxBmOf(Tail(ds)) THEN ds[1].bm ELSE MaxBmOf(Tail(ds))

\* a normalization that gives 1.0 when all raw scores are equal
NormBm25EqualIsOne(x, min_bm, max_bm) ==
    IF max_bm = min_bm THEN BmDen ELSE ((x - min_bm) * BmDen) \div (max_bm - min_bm)

\* _norm_bm25, in 1/BmDen
NormBm25(x, min_bm, max_bm) ==
    IF max_bm = min_bm THEN 0 ELSE ((x - min_bm) * BmDen) \div (max_bm - min_bm)

\* a fusion that leaves the BM25 term out
CombinedIgnoresBm25(alpha, sem, bm) == Clamp(alpha * sem * BmDen, 0, CombinedDen)

\* combined = max(0.0, min(1.0, alpha * sem_val + (1.0 - alpha) * bm)), in 1/CombinedDen
Combined(alpha, sem, bm) ==
    Clamp(alpha * sem * BmDen + (AlphaDen - alpha) * bm * DistUnits, 0, CombinedDen)

HybridRows ==
    LET min_bm == MinBm(docs)
        max_bm == MaxBmOf(docs)
    IN  [i \in 1..Len(docs) |->
            LET sem == Similarity(docs[i].dist)
                bm == NormBm25(docs[i].bm, min_bm, max_bm)
            IN  [chunk_id |-> i, semantic |-> sem, bm25 |-> bm,
                 combined |-> Combined(hybrid_alpha, sem, bm)]]

IsAscending(s) == \A i \in 1..(Len(s) - 1) : s[i].dist <= s[i + 1].dist

Modes == {"semantic", "bm25", "hybrid"}
Entries == {"direct", "GET /search", "POST /dev/consumeChunksIndexed"}
MAX_TOPK == 50
Blank(s) == s \in {"", " "}          \* not q or not q.strip()

\* the collections a query can meet: up to n chunks, nearest first
Collections(n) ==
    {c \in UNION {[1..k -> [dist : 0..MaxDist, bm : 0..MaxBm]] : k \in 0..n} : IsAscending(c)}

SearchStart ==
    /\ outcome = "pending" /\ rows = <<>> /\ http = 0 /\ queries = <<>> /\ corpora = <<>>

\* a direct call of Retriever.search with a query text, a mode and a top_k that
\* are well formed
SearchInit ==
    /\ ChunkerIdle
    /\ IndexingIdle
    /\ ServiceIdle
    /\ entry = "direct"
    /\ q = "appeal deadline"
    /\ top_k \in 1..MaxTopK
    /\ mode \in Modes
    /\ document_id \in {"", "d1"}
    /\ hybrid_alpha \in {0, 3, AlphaDen}
    /\ coll \in Collections(MaxIndex)
    /\ bm25_raises \in BOOLEAN
    /\ SearchStart

inputs == <<entry, q, top_k, mode, document_id, hybrid_alpha, coll, bm25_raises>>

\* what the entry point checks before it calls retriever.search: the Query(...)
\* constraints of GET /search, "if not q" of the dev endpoint
Admitted ==
    CASE entry = "GET /search" -> q # "" /\ top_k \in 1..MAX_TOPK /\ mode \in Modes
      [] entry = "POST /dev/consumeChunksIndexed" -> q # ""
      [] OTHER -> TRUE

\* the status of the response: GET /search turns ValueError into 400, the dev
\* endpoint lets it through
Http(result) ==
    CASE entry = "direct" -> 0
      [] result = "rows" -> 200
      [] entry = "GET /search" -> 400
      [] OTHER -> 500

\* the request this search sends to the vector store
Request == [n_results |-> Max(1, candidate_k), where |-> document_id]
\* tokenized_docs = [self._tokenize(doc) for doc in docs]
Corpus == [i \in 1..Len(docs) |-> i]

\* the request fails the entry point's validation: retriever.search is not called
RequestRejected ==
    /\ outcome = "pending"
    /\ ~ Admitted
    /\ outcome' = "rejected"
    /\ http' = IF entry = "GET /search" THEN 422 ELSE 400
    /\ UNCHANGED <<chunkerVars, indexingVars, serviceVars, inputs, rows, queries, corpora>>

\* if not q or not q.strip(): raise ValueError("Empty query")
SearchEmptyQuery ==
    /\ outcome = "pending"
    /\ Admitted
    /\ Blank(q)
    /\ outcome' = "ValueError"
    /\ http' = Http("ValueError")
    /\ UNCHANGED <<chunkerVars, indexingVars, serviceVars, inputs, rows, queries, corpora>>

\* if not docs: return []
SearchNoDocs ==
    /\ outcome = "pending"
    /\ Admitted
    /\ ~ Blank(q)
    /\ docs = <<>>
    /\ queries' = Append(queries, Request)
    /\ rows' = <<>>
    /\ outcome' = "rows"
    /\ http' = Http("rows")
    /\ UNCHANGED <<chunkerVars, indexingVars, serviceVars, inputs, corpora>>

\* mode == "semantic"
SearchSemantic ==
    /\ outcome = "pending"
    /\ Admitted
    /\ ~ Blank(q)
    /\ docs # <<>>
    /\ mode = "semantic"
    /\ queries' = Append(queries, Request)
    /\ rows' = PyHead(SemanticRows, top_k)
    /\ outcome' = "rows"
    /\ http' = Http("rows")
    /\ UNCHANGED <<chunkerVars, indexingVars, serviceVars, inputs, corpora>>

\* a fallback that forgets rows = rows[:top_k]
SearchBm25FallbackUntruncated ==
    /\ outcome = "pending"
    /\ Admitted
    /\ ~ Blank(q)
    /\ docs # <<>>
    /\ mode # "semantic"
    /\ bm25_raises
    /\ queries' = Append(queries, Request)
    /\ corpora' = Append(corpora, Corpus)
    /\ rows' = SemanticRows
    /\ outcome' = "rows"
    /\ http' = Http("rows")
    /\ UNCHANGED <<chunkerVars, indexingVars, serviceVars, inputs>>

\* BM25 construction or scoring raises: semantic-only rows
SearchBm25Fallback ==
    /\ outcome = "pending"
    /\ Admitted
    /\ ~ Blank(q)
    /\ docs # <<>>
    /\ mode # "semantic"
    /\ bm25_raises
    /\ queries' = Append(queries, Request)
    /\ corpora' = Append(corpora, Corpus)
    /\ rows' = PyHead(SemanticRows, top_k)
    /\ outcome' = "rows"
    /\ http' = Http("rows")
    /\ UNCHANGED <<chunkerVars, indexingVars, serviceVars, inputs>>

\* hybrid: BM25 rerank of the semantic candidates, sort, truncate
SearchHybrid ==
    /\ outcome = "pending"
    /\ Admitted
    /\ ~ Blank(q)
    /\ docs # <<>>
    /\ mode # "semantic"
    /\ ~ bm25_raises
    /\ queries' = Append(queries, Request)
    /\ corpora' = Append(corpora, Corpus)
    /\ rows' = PyHead(SortDescending(HybridRows), top_k)
    /\ outcome' = "rows"
    /\ http' = Http("rows")
    /\ UNCHANGED <<chunkerVars, indexingVars, serviceVars, inputs>>

SearchNext == SearchNoDocs \/ SearchSemantic \/ SearchBm25Fallback \/ SearchHybrid

SpecSearch == SearchInit /\ [][SearchNext]_vars

\* requests through every entry point, with any mode and top_k
EntryInit ==
    /\ ChunkerIdle
    /\ IndexingIdle
    /\ ServiceIdle
    /\ entry \in Entries
    /\ q \in {"", " ", "appeal deadline"}
    /\ top_k \in (-1..MaxTopK) \cup {MAX_TOPK + 1}
    /\ mode \in Modes \cup {"fuzzy"}
    /\ document_id \in {"", "d1"}
    /\ hybrid_alpha \in {0, 3, AlphaDen}
    /\ coll \in Collections(MaxEntryIndex)
    /\ bm25_raises \in BOOLEAN
    /\ SearchStart

EntryNext == RequestRejected \/ SearchEmptyQuery \/ SearchNext

SpecEntry == EntryInit /\ [][EntryNext]_vars

\* ---------------------------------------------------------- RetrievalEngine
RrfK == 50                    \* k = 50.0 of the rank fusion
EmbedderStates == {"unset", "2xx", "4xx", "5xx", "timeout"}
embedding_endpoint(i) == IF embedder[i] = "unset" THEN "" ELSE "http://embedder"

\* embed_query: the embedder's vector when the endpoint is configured and
\* answers 2xx, the dev vector in every other case
embed_query(i) ==
    IF embedding_endpoint(i) = "" THEN "dev"
    ELSE IF embedder[i] = "2xx" THEN "real"
    ELSE "dev"

RECURSIVE RankBy(_, _)
\* the chunks in ascending order of their distance to vector v
RankBy(ids, v) ==
    IF ids = {} THEN <<>>
    ELSE LET best == CHOOSE k \in ids : \A n \in ids :
                         \/ estore[k][v] < estore[n][v]
                         \/ estore[k][v] = estore[n][v] /\ k <= n
         IN  <<best>> \o RankBy(ids \ {best}, v)

\* collection.query(query_embeddings=[vec], n_results=n, ...)
EngineQuery(v, n) == PyHead(RankBy(1..Len(estore), v), n)

\* raw_sim = max(0.0, 1.0 - d), in 1/DistUnits
RawSim(d) == Max(0, DistUnits - 2 * d)

RECURSIVE SeqMin(_)
SeqMin(xs) == IF Len(xs) = 1 THEN xs[1]
              ELSE IF xs[1] <= SeqMin(Tail(xs)) THEN xs[1] ELSE SeqMin(Tail(xs))
RECURSIVE SeqMax(_)
SeqMax(xs) == IF Len(xs) = 1 THEN xs[1]
              ELSE IF xs[1] >= SeqMax(Tail(xs)) THEN xs[1] ELSE SeqMax(Tail(xs))

\* _normalize_minmax, in 1/DistUnits
normalize_minmax(scores) ==
    IF scores = <<>> THEN <<>>
    ELSE LET smin == SeqMin(scores)
             smax == SeqMax(scores)
         IN  IF smin = smax THEN [k \in 1..Len(scores) |-> 0]
             ELSE [k \in 1..Len(scores) |-> ((scores[k] - smin) * DistUnits) \div (smax - smin)]

\* top_k = max(1, min(int(top_k), MAX_TOPK))
ClampTopK(k) == Max(1, IF k <= MAX_TOPK THEN k ELSE MAX_TOPK)

\* _search_semantic; a score is a pair <<numerator, denominator>>
search_semantic(i, k) ==
    LET v == embed_query(i)
        ids == EngineQuery(v, k)
        sim == normalize_minmax([n \in 1..Len(ids) |-> RawSim(estore[ids[n]][v])])
    IN  [n \in 1..Len(ids) |->
            [chunk_id |-> ids[n], semantic |-> <<sim[n], DistUnits>>, bm25 |-> Null,
             combined |-> <<sim[n], DistUnits>>]]

\* _search_hybrid: both rankings are the semantic one, so a chunk of rank r gets
\* 1/(k + r) + 1/(k + r)
search_hybrid(i, k) ==
    LET sem == search_semantic(i, k)
    IN  PyHead([n \in 1..Len(sem) |-> [sem[n] EXCEPT !.combined = <<2, RrfK + n>>]], k)

EngineStart ==
    /\ engine_outcome = [i \in Engines |-> "pending"]
    /\ engine_hits = [i \in Engines |-> <<>>]
    /\ fallback_used = [i \in Engines |-> FALSE]

HealthIdle ==
    /\ embed_check = "docs" /\ bm25_selftest_raises = FALSE
    /\ retriever_health = <<>>
    /\ engine_health = [i \in Engines |-> <<>>]

\* two engines, each with its own embedder configuration, over one collection
\* and given the same request
EngineInit ==
    /\ ChannelIdle
    /\ ExtractionIdle
    /\ ChunkerIdle
    /\ IndexingIdle
    /\ SearchIdle
    /\ HealthIdle
    /\ embedder \in [Engines -> EmbedderStates]
    /\ index_ok \in BOOLEAN
    /\ estore \in UNION {[1..n -> [dev : 0..DistUnits, real : 0..DistUnits]] :
                           n \in 0..MaxEngineIndex}
    /\ engine_top_k \in 0..MaxTopK
    /\ engine_mode \in Modes \cup {"fuzzy"}
    /\ EngineStart

engineInputs == <<embedder, index_ok, estore, engine_top_k, engine_mode>>

\* raise ValueError(f"Unsupported mode: {mode}")
EngineUnsupportedMode(i) ==
    /\ engine_outcome[i] = "pending"
    /\ engine_mode \notin Modes
    /\ engine_outcome' = [engine_outcome EXCEPT ![i] = "ValueError"]
    /\ UNCHANGED <<chunkerVars, indexingVars, searchVars, healthVars, amqp, extraction, engineInputs,
                   engine_hits, fallback_used>>

\* collection.query raises: the exception leaves search
EngineStoreDown(i) ==
    /\ engine_outcome[i] = "pending"
    /\ engine_mode \in Modes
    /\ ~ index_ok
    /\ fallback_used' = [fallback_used EXCEPT ![i] = embed_query(i) = "dev"]
    /\ engine_outcome' = [engine_outcome EXCEPT ![i] = "Exception"]
    /\ UNCHANGED <<chunkerVars, indexingVars, searchVars, healthVars, amqp, extraction, engineInputs,
                   engine_hits>>

\* mode "semantic", and mode "bm25" which is a stub for it
EngineSemantic(i) ==
    /\ engine_outcome[i] = "pending"
    /\ engine_mode \in {"semantic", "bm25"}
    /\ index_ok
    /\ fallback_used' = [fallback_used EXCEPT ![i] = embed_query(i) = "dev"]
    /\ engine_hits' = [engine_hits EXCEPT ![i] = search_semantic(i, ClampTopK(engine_top_k))]
    /\ engine_outcome' = [engine_outcome EXCEPT ![i] = "hits"]
    /\ UNCHANGED <<chunkerVars, indexingVars, searchVars, healthVars, amqp, extraction, engineInputs>>

EngineHybrid(i) ==
    /\ engine_outcome[i] = "pending"
    /\ engine_mode = "hybrid"
    /\ index_ok
    /\ fallback_used' = [fallback_used EXCEPT ![i] = embed_query(i) = "dev"]
    /\ engine_hits' = [engine_hits EXCEPT ![i] = search_hybrid(i, ClampTopK(engine_top_k))]
    /\ engine_outcome' = [engine_outcome EXCEPT ![i] = "hits"]
    /\ UNCHANGED <<chunkerVars, indexingVars, searchVars, healthVars, amqp, extraction, engineInputs>>

EngineNext ==
    \E i \in Engines :
        \/ EngineUnsupportedMode(i) \/ EngineStoreDown(i) \/ EngineSemantic(i)
        \/ EngineHybrid(i)

SpecEngine == EngineInit /\ [][EngineNext]_vars

\* ------------------------------------------------------------ health probes
\* Retriever.health
RetrieverHealthAnswer ==
    LET chroma_ok == index_ok
        embed_ok == chroma_ok /\ embed_check = "docs"
        bm25_ok == chroma_ok /\ ~ bm25_selftest_raises
        status1 == IF chroma_ok THEN "ok" ELSE "down"
        status2 == IF ~ embed_ok THEN (IF status1 # "down" THEN "degraded" ELSE "down")
                   ELSE status1
        status3 == IF ~ bm25_ok THEN (IF status2 # "down" THEN "degraded" ELSE "down")
                   ELSE status2
    IN  [status |-> status3, reachable |-> chroma_ok, ready |-> bm25_ok]

\* RetrievalEngine.health
EngineHealthAnswer(i) ==
    LET idx_ok == index_ok
        emb_ok == IF embedding_endpoint(i) = "" THEN TRUE
                  ELSE embedder[i] \in {"2xx", "4xx"}          \* r.status_code < 500
    IN  [status |-> IF idx_ok /\ emb_ok THEN "ok"
                    ELSE IF idx_ok \/ emb_ok THEN "degraded" ELSE "down",
         reachable |-> emb_ok]

HealthInit ==
    /\ ChannelIdle
    /\ ExtractionIdle
    /\ ChunkerIdle
    /\ IndexingIdle
    /\ SearchIdle
    /\ EngineStart
    /\ estore = <<>> /\ engine_top_k = 1 /\ engine_mode = "semantic"
    /\ embedder \in [Engines -> EmbedderStates]
    /\ index_ok \in BOOLEAN
    /\ embed_check \in {"docs", "empty", "raises"}
    /\ bm25_selftest_raises \in BOOLEAN
    /\ retriever_health = <<>>
    /\ engine_health = [i \in Engines |-> <<>>]

\* GET /health of the retrieval service
RetrieverHealth ==
    /\ retriever_health = <<>>
    /\ retriever_health' = RetrieverHealthAnswer
    /\ UNCHANGED <<chunkerVars, indexingVars, searchVars, engineVars, amqp, extraction, embed_check,
                   bm25_selftest_raises, engine_health>>

EngineHealth(i) ==
    /\ engine_health[i] = <<>>
    /\ engine_health' = [engine_health EXCEPT ![i] = EngineHealthAnswer(i)]
    /\ UNCHANGED <<chunkerVars, indexingVars, searchVars, engineVars, amqp, extraction, embed_check,
                   bm25_selftest_raises, retriever_health>>

HealthNext == RetrieverHealth \/ \E i \in Engines : EngineHealth(i)

SpecHealth == HealthInit /\ [][HealthNext]_vars

\* ------------------------------------------------- properties of the chunker
RECURSIVE DropNL(_)
DropNL(s) ==
    IF s = <<>> THEN <<>>
    ELSE (IF Head(s) = NL THEN <<>> ELSE <<Head(s)>>) \o DropNL(Tail(s))

\* the carried overlap prefix of an emitted chunk, and the content added after it
OverlapPart(c) == SubSeq(c.text, 1, c.carried)
NewContent(c) == DropNL(SubSeq(c.text, c.carried + 1, Len(c.text)))

RECURSIVE ConcatContent(_)
ConcatContent(cs) ==
    IF cs = <<>> THEN <<>> ELSE NewContent(Head(cs)) \o ConcatContent(Tail(cs))

RECURSIVE SumLen(_)
SumLen(cs) == IF cs = <<>> THEN 0 ELSE Len(Head(cs).text) + SumLen(Tail(cs))

Min(a, b) == IF a <= b THEN a ELSE b
Range(s) == {s[i] : i \in 1..Len(s)}
DocTokens == SelectPos(text, Positions(text))

\* C1: with 1 <= overlap_tokens < max_tokens every emitted chunk holds at most
\* max_tokens tokens, carried overlap prefix plus newly added content.
C1_ChunkWithinBudget ==
    overlap_tokens >= 1 =>
        \A i \in 1..Len(chunks) :
            Len(OverlapPart(chunks[i])) + Len(NewContent(chunks[i])) <= max_tokens

\* C2: with overlap_tokens >= 1 every chunk starts with exactly the last
\* min(overlap_tokens, n) tokens of the chunk emitted before it (n its length).
C2_OverlapCarried ==
    overlap_tokens >= 1 =>
        \A i \in 1..(Len(chunks) - 1) :
            LET prev == chunks[i].text
                k == Min(overlap_tokens, Len(prev))
            IN  /\ Len(chunks[i + 1].text) >= k
                /\ SubSeq(chunks[i + 1].text, 1, k) = SubSeq(prev, Len(prev) - k + 1, Len(prev))

\* C3: the chunks returned for a document, with each carried overlap prefix
\* removed, concatenate to the document's content tokens in order, each once;
\* so the chunks' token counts sum to at least the document's token count.
C3_ContentPreserved ==
    pc = "returned" =>
        /\ ConcatContent(chunks) = DocTokens
        /\ SumLen(chunks) >= Len(DocTokens)

C3_Witness ==
    /\ pc = "returned"
    /\ Len(chunks) >= 3
    /\ \E i \in 1..Len(chunks) : chunks[i].carried > 0
    /\ \E p \in 1..Len(pages) : \E g \in 1..Len(Paragraphs(text, pages[p].content)) :
           Len(ParaTokens(text, Paragraphs(text, pages[p].content)[g])) > max_tokens

\* C4: the new content of every emitted chunk lies on one page, whose number is
\* the chunk's page field, and no chunk buffer is open between two pages.
C4_OnePagePerChunk ==
    /\ \A i \in 1..Len(chunks) :
           \E p \in 1..Len(pages) :
               /\ chunks[i].page = pages[p].num
               /\ Range(NewContent(chunks[i])) \subseteq Range(pages[p].content)
    /\ pc \in {"pages", "returned", "raised"} => current_chunk = <<>> /\ current_tokens = 0

C4_Witness ==
    /\ pc = "returned"
    /\ \E i \in 1..(Len(chunks) - 1) :
           /\ chunks[i].page # chunks[i + 1].page
           /\ chunks[i + 1].carried > 0
           /\ NewContent(chunks[i + 1]) # <<>>

\* C5: the i-th emitted chunk has id doc_id-<i zero-padded to 4 digits>; ids are
\* unique, and a flush that discards an empty buffer uses no sequence number.
C5_SequentialIds ==
    /\ counter = Len(chunks) + 1
    /\ \A i \in 1..Len(chunks) : chunks[i].chunkId = <<doc_id, Pad4(i)>>
    /\ \A i, j \in 1..Len(chunks) : chunks[i].chunkId = chunks[j].chunkId => i = j

C5_Witness ==
    /\ pc = "returned"
    /\ Len(chunks) >= 2
    /\ \E p \in 2..(Len(pages) - 1) : SelectPos(text, pages[p].content) = <<>>
    /\ SelectPos(text, pages[1].content) # <<>>

\* C6: chunk_text_semantic never fails, whatever the text.
C6_NeverFails == pc # "raised"

\* ---------------------------------------- properties of the indexing service
Active(call) == call.pc \notin {"idle", "done", "failed"}

\* C7: handling a DocumentExtracted event for a document that is already indexed
\* regenerates no embeddings and leaves the document's chunks in the vector
\* store and the metadata log as they were (stated for runs in which no manual
\* re-index takes part, so that only message handling is involved).
C7_RedeliveryNoOp ==
    [][(/\ h.pc = "loaded" /\ h'.pc # "loaded"
        /\ CollectionGet(collection, h.doc) # {}
        /\ \A t \in 1..MaxManual : tasks[t].pc = "idle")
         => /\ embed_calls' = embed_calls
            /\ index_metadata' = index_metadata
            /\ CollectionGet(collection', h.doc) = CollectionGet(collection, h.doc)]_vars

\* C8: when a manual re-index has stored its chunks, the vector store holds for
\* that document exactly the chunks that run produced, at least one.
C8_ManualReindexExact ==
    [][\A t \in 1..MaxManual :
         (tasks[t].pc = "loaded" /\ tasks'[t].pc = "publish")
           => /\ CollectionGet(collection', tasks[t].doc)
                   = EmbeddedChunks(tasks[t].doc, tasks[t].text)
              /\ EmbeddedChunks(tasks[t].doc, tasks[t].text) # {}]_vars

\* C9: two indexing runs for one document_id (handler or manual re-index) are
\* never in progress together.
C9_MutualExclusion ==
    /\ \A t \in 1..MaxManual :
         Active(h) /\ Active(tasks[t]) => h.doc # tasks[t].doc
    /\ \A t, u \in 1..MaxManual :
         t # u /\ Active(tasks[t]) /\ Active(tasks[u]) => tasks[t].doc # tasks[u].doc

\* ------------------------------------------------ properties of the retriever
Better(r, c) ==
    \/ r.combined > c.combined
    \/ r.combined = c.combined /\ r.chunk_id < c.chunk_id

HybridDone == outcome = "rows" /\ mode # "semantic" /\ ~ bm25_raises

\* C10: in hybrid mode the rows returned are the first top_k of the candidates
\* in descending order of combined score, candidates with equal combined score
\* in the order of the vector store's result.
C10_HybridStableRanking ==
    HybridDone =>
        /\ Len(rows) = Min(top_k, Len(docs))
        /\ \A i \in 1..Len(rows) : rows[i] = HybridRows[rows[i].chunk_id]
        /\ \A i, j \in 1..Len(rows) : i < j => Better(rows[i], rows[j])
        /\ \A i \in 1..Len(rows) : \A k \in 1..Len(docs) :
               (\A j \in 1..Len(rows) : rows[j].chunk_id # k) => Better(rows[i], HybridRows[k])

C10_Witness ==
    /\ HybridDone
    /\ Len(docs) > top_k
    /\ Len(rows) >= 2
    /\ rows[1].combined = rows[2].combined
    /\ \E k \in 1..Len(docs) : HybridRows[k].combined > HybridRows[1].combined

\* C11: every row returned, in every mode and in the BM25-failure fallback, has
\* combined in [0,1], semantic in [0,1] or null, and bm25 in [0,1] or null.
C11_ScoresInUnitInterval ==
    outcome = "rows" =>
        \A i \in 1..Len(rows) :
            /\ rows[i].combined \in 0..CombinedDen
            /\ rows[i].semantic = Null \/ rows[i].semantic \in 0..DistUnits
            /\ rows[i].bm25 = Null \/ rows[i].bm25 \in 0..BmDen

C11_Witness ==
    /\ HybridDone
    /\ \E i \in 1..Len(rows) :
           /\ docs[rows[i].chunk_id].dist > DistUnits
           /\ rows[i].semantic = 0
           /\ rows[i].bm25 = BmDen

\* C12: in semantic mode no BM25 corpus is built, every row has bm25 = null and
\* combined equal to its semantic score, and the rows are the vector store's
\* result in its order, at most top_k of them.
C12_SemanticOnly ==
    (outcome = "rows" /\ mode = "semantic") =>
        /\ corpora = <<>>
        /\ Len(rows) <= top_k
        /\ Len(rows) = Len(CollQuery(top_k))
        /\ \A i \in 1..Len(rows) :
               /\ rows[i].chunk_id = i
               /\ rows[i].bm25 = Null
               /\ rows[i].semantic = Similarity(coll[i].dist)
               /\ rows[i].combined * DistUnits = rows[i].semantic * CombinedDen

C12_Witness ==
    /\ outcome = "rows" /\ mode = "semantic"
    /\ Len(rows) = top_k /\ top_k >= 2 /\ Len(coll) > top_k
    /\ rows[1].semantic > rows[2].semantic

\* the smallest and the largest raw BM25 score among the candidates
LowestRaw == CHOOSE x \in {docs[k].bm : k \in 1..Len(docs)} : \A k \in 1..Len(docs) : x <= docs[k].bm
HighestRaw == CHOOSE x \in {docs[k].bm : k \in 1..Len(docs)} : \A k \in 1..Len(docs) : x >= docs[k].bm

\* C13: the normalized BM25 score of a candidate with raw score x is
\* (x - min)/(max - min) over the candidate set, 0 for the lowest and 1 for the
\* highest; when all raw scores are equal (a single candidate included) it is 0.
C13_Bm25MinMax ==
    HybridDone =>
        \A i \in 1..Len(rows) :
            LET x == docs[rows[i].chunk_id].bm
            IN  /\ LowestRaw = HighestRaw => rows[i].bm25 = 0
                /\ LowestRaw # HighestRaw =>
                       /\ rows[i].bm25 * (HighestRaw - LowestRaw) = (x - LowestRaw) * BmDen
                       /\ x = LowestRaw => rows[i].bm25 = 0
                       /\ x = HighestRaw => rows[i].bm25 = BmDen

C13_Witness ==
    /\ HybridDone
    /\ Len(docs) = 1
    /\ docs[1].bm > 0
    /\ Len(rows) = 1 /\ rows[1].bm25 = 0

\* C14: when BM25 construction or scoring raises in a hybrid search, the search
\* returns the first top_k semantic candidates in the vector store's order, each
\* with bm25 = null and combined = semantic; no exception reaches the caller.
C14_Bm25FailureFallback ==
    (outcome # "pending" /\ mode = "hybrid" /\ bm25_raises /\ ~ Blank(q)) =>
        /\ outcome = "rows"
        /\ Len(rows) = Min(top_k, Len(docs))
        /\ \A i \in 1..Len(rows) :
               /\ rows[i].chunk_id = i
               /\ rows[i].bm25 = Null
               /\ rows[i].semantic = Similarity(docs[i].dist)
               /\ rows[i].combined * DistUnits = rows[i].semantic * CombinedDen

C14_Witness ==
    /\ outcome = "rows" /\ mode = "hybrid" /\ bm25_raises
    /\ Len(docs) > top_k
    /\ Len(rows) = top_k
    /\ docs[Len(docs)].bm > docs[1].bm

\* the N nearest chunks of the hybrid candidate set
HybridN == IF top_k * 5 >= top_k THEN top_k * 5 ELSE top_k

Bm25Scored == outcome = "rows" /\ corpora # <<>>

PlaceOf(k) ==
    IF \E i \in 1..Len(rows) : rows[i].chunk_id = k
    THEN CHOOSE i \in 1..Len(rows) : rows[i].chunk_id = k
    ELSE 0

\* C20: in hybrid mode with alpha < 1, of two candidates with equal semantic
\* similarity the one with the strictly higher normalized BM25 score has the
\* strictly higher combined score and comes first in the sorted list, whatever
\* their order in the vector store's result.
C20_Bm25BreaksSemanticTies ==
    (HybridDone /\ mode = "hybrid" /\ hybrid_alpha < AlphaDen) =>
        \A a, b \in 1..Len(docs) :
            (/\ Similarity(docs[a].dist) = Similarity(docs[b].dist)
             /\ (docs[a].bm - LowestRaw) * BmDen > (docs[b].bm - LowestRaw) * BmDen
             /\ LowestRaw # HighestRaw)
            => /\ HybridRows[a].combined > HybridRows[b].combined
               /\ PlaceOf(b) # 0 => (PlaceOf(a) # 0 /\ PlaceOf(a) < PlaceOf(b))
               /\ \A i \in 1..Len(rows) :
                      rows[i].chunk_id = a => rows[i].combined = HybridRows[a].combined

C20_Witness ==
    /\ HybridDone /\ mode = "hybrid" /\ hybrid_alpha < AlphaDen /\ hybrid_alpha > 0
    /\ \E a, b \in 1..Len(docs) :
           /\ a > b
           /\ Similarity(docs[a].dist) = Similarity(docs[b].dist)
           /\ docs[a].bm > docs[b].bm
           /\ PlaceOf(a) # 0 /\ PlaceOf(b) # 0 /\ PlaceOf(a) < PlaceOf(b)

\* ------------------------------------------------ properties of the entry points
InputError ==
    IF entry = "direct" THEN outcome = "ValueError"
    ELSE outcome \in {"ValueError", "rejected"} /\ http \in {400, 422}

\* C15: a search whose query text is empty or whitespace-only is rejected with
\* an input error (ValueError from the search method, a 4xx status from an
\* endpoint) and no vector-store query is made for it.
C15_EmptyQueryRejected ==
    (Blank(q) /\ outcome # "pending") =>
        /\ InputError
        /\ queries = <<>> /\ corpora = <<>> /\ rows = <<>>

\* C16: a request whose mode is not semantic, bm25 or hybrid, or whose top_k is
\* outside 1..50, is rejected as an input error on every entry point: no
\* vector-store query and no ranking is performed for it.
C16_InvalidRequestRejected ==
    ((mode \notin Modes \/ top_k \notin 1..MAX_TOPK) /\ outcome # "pending") =>
        /\ InputError
        /\ queries = <<>> /\ corpora = <<>> /\ rows = <<>>

\* ------------------------------------------------- properties of the engine
\* C17: when the embedding endpoint is unconfigured or the embed call fails or
\* times out, a search that returns results never returns the same response as
\* a search of the same collection computed with the embedder's vector: the
\* response tells the fallback apart, or the request fails.
C17_FallbackDistinguishable ==
    \A i, j \in Engines :
        (/\ engine_outcome[i] = "hits" /\ engine_outcome[j] = "hits"
         /\ fallback_used[i] /\ ~ fallback_used[j]
         /\ engine_hits[i] # <<>>)
        => engine_hits[i] # engine_hits[j]

\* ------------------------------------------- properties of the health probes
\* C18: when the embedding check fails while the vector store is reachable,
\* health reports "degraded" and embedding.reachable = false; the status is "ok"
\* only when the vector store, the embedder and (where the probe has one) the
\* BM25 self-test succeed; an engine that is using the fallback embedding never
\* reports its embedder reachable.
C18_HealthReflectsEmbedder ==
    /\ retriever_health # <<>> =>
           /\ (index_ok /\ embed_check = "raises") =>
                  retriever_health.status = "degraded" /\ ~ retriever_health.reachable
           /\ retriever_health.status = "ok" =>
                  index_ok /\ embed_check = "docs" /\ ~ bm25_selftest_raises
    /\ \A i \in Engines : engine_health[i] # <<>> =>
           /\ (index_ok /\ embedder[i] \in {"5xx", "timeout"}) =>
                  engine_health[i].status = "degraded" /\ ~ engine_health[i].reachable
           /\ engine_health[i].status = "ok" => index_ok /\ embed_query(i) = "real"
           /\ embed_query(i) = "dev" => ~ engine_health[i].reachable

C22_NoEmptyChunk ==
    \A i \in 1..Len(chunks) : \E k \in 1..Len(chunks[i].text) : chunks[i].text[k] # NL

C22_Witness ==
    /\ pc = "returned"
    /\ chunks # <<>>
    /\ \E p \in 1..Len(pages) :
           /\ pages[p].content # <<>>
           /\ SelectPos(text, pages[p].content) = <<>>
    /\ \E p \in 1..Len(pages) : pages[p].content = <<>>

RECURSIVE ClaimPage(_, _)
\* the page in force after t[1..k] by the stated rule: 1 for text before the first
\* marker, N after a marker N, the page before plus one after a malformed marker
ClaimPage(t, k) ==
    IF k = 0 THEN 0
    ELSE LET before == ClaimPage(t, k - 1) IN
         CASE t[k] \in {"pg1", "pg2"} -> MarkerNum(t[k])
           [] t[k] \in {"pgx", "pgbig"} -> before + 1
           [] t[k] = "tok" -> IF before = 0 THEN 1 ELSE before
           [] OTHER -> before

\* C23: text before the first page marker (or all of it when there is none) is
\* page 1, text after a marker N is page N, and text after a malformed marker is
\* on the page before it plus one (1 when there is none).
C23_PageAssignment ==
    \A i \in 1..Len(chunks) :
        \A k \in Range(NewContent(chunks[i])) :
            text[k] = "tok" => chunks[i].page = ClaimPage(text, k)

\* C29: with overlap_tokens = 0 no token is carried over: the pending overlap is
\* empty after every flush, each chunk holds only its own new content, and two
\* consecutive chunks have no token in common.
C29_NoOverlapAtZero ==
    overlap_tokens = 0 =>
        /\ next_chunk_prefix_ids = <<>>
        /\ \A i \in 1..Len(chunks) : chunks[i].carried = 0
        /\ \A i \in 1..(Len(chunks) - 1) :
               Range(DropNL(chunks[i].text)) \cap Range(DropNL(chunks[i + 1].text)) = {}

\* C30: chunk_text_semantic ends after finitely many chunks: every chunk holds a
\* token no chunk before it held, so there are at most as many chunks as tokens,
\* and in the hard-split loop the pending overlap always leaves room for a token
\* of the sentence, so a token is consumed between two flushes.
C30_SplitLoopProgress ==
    /\ Len(chunks) <= Len(DocTokens)
    /\ (pc = "split" /\ ti < Len(sent) /\ current_tokens = 0)
           => Len(next_chunk_prefix_ids) < max_tokens

\* ------------------------------------------------- semantic score, both engines
\* clamp(1 - d / 2, 0, 1), in 1/DistUnits
OwnSimilarity(d) == IF d <= 0 THEN DistUnits ELSE IF d >= DistUnits THEN 0 ELSE DistUnits - d

\* C24: the semantic score of every result is clamp(1 - distance/2, 0, 1) of that
\* candidate's own cosine distance, whatever the other candidates are: distance
\* 0 gives 1, distance 2 gives 0, and a lone candidate keeps its own similarity.
C24_SemanticIsOwnSimilarity ==
    /\ outcome = "rows" =>
           \A n \in 1..Len(rows) :
               rows[n].semantic = OwnSimilarity(coll[rows[n].chunk_id].dist)
    /\ \A i \in Engines : engine_outcome[i] = "hits" =>
           \A n \in 1..Len(engine_hits[i]) :
               engine_hits[i][n].semantic =
                   <<OwnSimilarity(estore[engine_hits[i][n].chunk_id][embed_query(i)]),
                     DistUnits>>

\* ------------------------------------- the consumer of DocumentExtracted
\* the chunks of the run in progress are in the collection
RunStored(call, stored) ==
    \A n \in 1..call.text : \E x \in stored : x.document_id = call.doc /\ x.seq = n

C26_PublishedBeforeAck ==
    [][(h.pc = "publish" /\ h'.pc = "ack") =>
           events' = Append(events, [documentId |-> h.doc, chunkCount |-> h.text])]_vars

\* ------------------------------------------- events.py: _ensure_channel
\* the lock is never seen as held
LockIgnored == FALSE

\* async with _amqp_lock: a caller waits while another one holds the lock
Locked == amqp.lock # 0

\* if _amqp_connection and not _amqp_connection.is_closed:
\*     if _amqp_channel and not _amqp_channel.is_closed:
Alive == amqp.connection \in amqp.open_connections /\ amqp.channel \in amqp.open_channels

ChannelInit ==
    /\ ChunkerIdle
    /\ IndexingIdle
    /\ SearchIdle
    /\ EngineStart
    /\ embedder = [i \in Engines |-> "unset"] /\ index_ok = TRUE /\ estore = <<>>
    /\ engine_top_k = 1 /\ engine_mode = "semantic"
    /\ HealthIdle
    /\ ExtractionIdle
    /\ ChannelStart

\* fast path: the lock is taken, the channel is returned, the lock is released
EnsureChannelReuse(c) ==
    /\ amqp.caller[c].pc = "idle"
    /\ ~ Locked
    /\ Alive
    /\ amqp' = [amqp EXCEPT !.caller[c] = [pc |-> "done", conn |-> 0, got |-> amqp.channel]]
    /\ UNCHANGED <<chunkerVars, indexingVars, searchVars, engineVars, healthVars, extraction>>

\* slow path: the lock is taken and kept across await aio_pika.connect_robust(...)
EnsureChannelConnect(c) ==
    /\ amqp.caller[c].pc = "idle"
    /\ ~ Locked
    /\ ~ Alive
    /\ amqp' = [amqp EXCEPT !.lock = c, !.caller[c].pc = "connecting"]
    /\ UNCHANGED <<chunkerVars, indexingVars, searchVars, engineVars, healthVars, extraction>>

\* connect_robust returns: _amqp_connection = <new connection>; await .channel()
Connected(c) ==
    /\ amqp.caller[c].pc = "connecting"
    /\ amqp.connects < MaxConnects
    /\ amqp' = [amqp EXCEPT !.connects = @ + 1,
                            !.connection = amqp.connects + 1,
                            !.open_connections = @ \cup {amqp.connects + 1},
                            !.caller[c].pc = "opening",
                            !.caller[c].conn = amqp.connects + 1]
    /\ UNCHANGED <<chunkerVars, indexingVars, searchVars, engineVars, healthVars, extraction>>

\* connect_robust raises: the lock is released by async with
ConnectFails(c) ==
    /\ amqp.caller[c].pc = "connecting"
    /\ amqp' = [amqp EXCEPT !.lock = 0, !.caller[c].pc = "failed"]
    /\ UNCHANGED <<chunkerVars, indexingVars, searchVars, engineVars, healthVars, extraction>>

\* .channel() returns: _amqp_channel = <new channel>; return _amqp_channel
ChannelOpened(c) ==
    /\ amqp.caller[c].pc = "opening"
    /\ amqp.caller[c].conn \in amqp.open_connections
    /\ amqp' = [amqp EXCEPT !.channel = amqp.caller[c].conn,
                            !.open_channels = @ \cup {amqp.caller[c].conn},
                            !.lock = 0,
                            !.caller[c].pc = "done",
                            !.caller[c].got = amqp.caller[c].conn]
    /\ UNCHANGED <<chunkerVars, indexingVars, searchVars, engineVars, healthVars, extraction>>

\* .channel() raises: the lock is released by async with
ChannelFails(c) ==
    /\ amqp.caller[c].pc = "opening"
    /\ amqp' = [amqp EXCEPT !.lock = 0, !.caller[c].pc = "failed"]
    /\ UNCHANGED <<chunkerVars, indexingVars, searchVars, engineVars, healthVars, extraction>>

\* a connection is closed, and its channel with it
ConnectionCloses(k) ==
    /\ k \in amqp.open_connections
    /\ amqp' = [amqp EXCEPT !.open_connections = @ \ {k}, !.open_channels = @ \ {k}]
    /\ UNCHANGED <<chunkerVars, indexingVars, searchVars, engineVars, healthVars, extraction>>

\* a channel is closed, its connection stays
ChannelCloses(k) ==
    /\ k \in amqp.open_channels
    /\ amqp' = [amqp EXCEPT !.open_channels = @ \ {k}]
    /\ UNCHANGED <<chunkerVars, indexingVars, searchVars, engineVars, healthVars, extraction>>

ChannelNext ==
    \/ \E c \in Callers :
          \/ EnsureChannelReuse(c) \/ EnsureChannelConnect(c)
          \/ Connected(c) \/ ConnectFails(c)
          \/ ChannelOpened(c) \/ ChannelFails(c)
    \/ \E k \in 1..MaxConnects : ConnectionCloses(k) \/ ChannelCloses(k)

SpecChannel == ChannelInit /\ [][ChannelNext]_vars

\* C27: under every interleaving of the callers of _ensure_channel at most one
\* caller is inside the connect-and-open-channel sequence, and while the
\* connection and the channel are open no connection is opened and every caller
\* that returns is given that channel.
C27_SingleConnector ==
    [][/\ Cardinality({c \in Callers : amqp'.caller[c].pc \in {"connecting", "opening"}}) <= 1
       /\ Alive =>
              /\ amqp'.connects = amqp.connects
              /\ \A c \in Callers :
                     (amqp.caller[c].pc # "done" /\ amqp'.caller[c].pc = "done")
                     => amqp'.caller[c].got = amqp.channel
      ]_vars

C27_Witness ==
    /\ Alive
    /\ amqp.connects = 1
    /\ \A c \in Callers : amqp.caller[c].pc = "done" /\ amqp.caller[c].got = amqp.channel

\* ------------------------------------ extraction service: the consumer
FileExists == extraction.out_file # 0

\* extraction/main.py: os.path.exists(out_path) and not settings.force_reextract;
\* extraction/app/main.py: os.path.exists(out_path)
SkipsExtraction ==
    FileExists /\ ~ (extraction.version = "main" /\ extraction.force_reextract)

ExtractionInit ==
    /\ ChunkerIdle
    /\ IndexingIdle
    /\ SearchIdle
    /\ EngineStart
    /\ embedder = [i \in Engines |-> "unset"] /\ index_ok = TRUE /\ estore = <<>>
    /\ engine_top_k = 1 /\ engine_mode = "semantic"
    /\ HealthIdle
    /\ ChannelIdle
    /\ \E version \in {"main", "app"} : \E force \in BOOLEAN : \E written \in {0, 1} :
           extraction = ExtractionStart(version, force, written)

\* the broker receives a message for the document
XDeliver ==
    /\ extraction.deliveries < MaxXDeliveries
    /\ extraction' = [extraction EXCEPT !.pending = @ + 1, !.deliveries = @ + 1]
    /\ UNCHANGED <<chunkerVars, indexingVars, searchVars, engineVars, healthVars, amqp>>

\* a rejected message is delivered again
Redelivery == IF extraction.deliveries < MaxXDeliveries THEN 1 ELSE 0

\* the handler runs to the await of the publish: the output file exists, no extraction
XReceiveSkip(i) ==
    /\ extraction.handlers[i].pc = "idle" /\ extraction.pending > 0
    /\ SkipsExtraction
    /\ extraction' = [extraction EXCEPT
           !.events_consumed = @ + 1,
           !.pending = @ - 1,
           !.handlers[i] = [pc |-> "publish", existed |-> TRUE, fresh |-> FALSE]]
    /\ UNCHANGED <<chunkerVars, indexingVars, searchVars, engineVars, healthVars, amqp>>

\* the handler runs to the await of the publish: _extract_pdf_to_jsonl writes the file
XReceiveExtract(i) ==
    /\ extraction.handlers[i].pc = "idle" /\ extraction.pending > 0
    /\ ~ SkipsExtraction
    /\ extraction' = [extraction EXCEPT
           !.events_consumed = @ + 1,
           !.pending = @ - 1,
           !.out_file = @ + 1,
           !.extractions = @ + 1,
           !.handlers[i] = [pc |-> "publish", existed |-> FileExists, fresh |-> TRUE]]
    /\ UNCHANGED <<chunkerVars, indexingVars, searchVars, engineVars, healthVars, amqp>>

\* _extract_pdf_to_jsonl raises, before the output file is opened or after:
\* _bump(errors=1), and msg.process(requeue=True) rejects the message
XReceiveRaise(i) ==
    /\ extraction.handlers[i].pc = "idle" /\ extraction.pending > 0
    /\ ~ SkipsExtraction
    /\ \E written \in BOOLEAN :
         extraction' = [extraction EXCEPT
           !.events_consumed = @ + 1,
           !.out_file = IF written THEN @ + 1 ELSE @,
           !.extractions = @ + 1,
           !.errors = @ + 1,
           !.nacks = @ + 1,
           !.pending = @ - 1 + Redelivery,
           !.deliveries = @ + Redelivery]
    /\ UNCHANGED <<chunkerVars, indexingVars, searchVars, engineVars, healthVars, amqp>>

\* the publish that counts a skipped document as extracted
XPublishCountsSkipped(i) ==
    /\ extraction.handlers[i].pc = "publish"
    /\ \/ extraction' = [extraction EXCEPT
             !.handlers[i] = NoExtraction,
             !.published = @ + 1,
             !.docs_extracted = @ + 1,
             !.acks = @ + 1]
       \/ extraction' = [extraction EXCEPT
             !.handlers[i] = NoExtraction,
             !.errors = @ + 1,
             !.nacks = @ + 1,
             !.pending = @ + Redelivery,
             !.deliveries = @ + Redelivery]
    /\ UNCHANGED <<chunkerVars, indexingVars, searchVars, engineVars, healthVars, amqp>>

\* await mq.ex.publish(...): the event is published, docs_extracted is bumped after
\* a fresh extraction and the message is acknowledged; or the publish raises,
\* errors is bumped and the message is rejected with requeue
XPublish(i) ==
    /\ extraction.handlers[i].pc = "publish"
    /\ \/ extraction' = [extraction EXCEPT
             !.handlers[i] = NoExtraction,
             !.published = @ + 1,
             !.docs_extracted = IF extraction.handlers[i].fresh THEN @ + 1 ELSE @,
             !.acks = @ + 1]
       \/ extraction' = [extraction EXCEPT
             !.handlers[i] = NoExtraction,
             !.errors = @ + 1,
             !.nacks = @ + 1,
             !.pending = @ + Redelivery,
             !.deliveries = @ + Redelivery]
    /\ UNCHANGED <<chunkerVars, indexingVars, searchVars, engineVars, healthVars, amqp>>

ExtractionNext ==
    \/ XDeliver
    \/ \E i \in XHandlers :
          XReceiveSkip(i) \/ XReceiveExtract(i) \/ XReceiveRaise(i) \/ XPublish(i)

SpecExtraction == ExtractionInit /\ [][ExtractionNext]_vars

\* the handler call i returns from its publish in this step
EndsExisting(i) ==
    /\ extraction.handlers[i].pc = "publish"
    /\ extraction'.handlers[i].pc = "idle"

\* docs_extracted grows only when the publish of a fresh extraction succeeds
CountedOnlyWhenFresh ==
    extraction'.docs_extracted # extraction.docs_extracted =>
        \E i \in XHandlers :
            /\ EndsExisting(i) /\ extraction.handlers[i].fresh
            /\ extraction'.published = extraction.published + 1
            /\ extraction'.docs_extracted = extraction.docs_extracted + 1

====
